---- MODULE Spec2Model ----
(***************************************************************************)
(* Model of the dream-go search engine (src/src/mcts/mod.rs):              *)
(*   - predict: worker threads claiming iterations from a shared counter,  *)
(*     probing a shared tree, sending evaluation requests to the batch     *)
(*     dispatcher on the calling thread and inserting the replies;         *)
(*   - forward: the augmented forward pass (mask, symmetry merge,          *)
(*     renormalise);                                                       *)
(*   - self_play: the loop of plies that builds the game record;           *)
(*   - CircularBuf (src/src/libdg_go/circular_buf.rs): push and iterate.   *)
(* The tree, board, symmetry and evaluator modules (tree::probe,            *)
(* tree::insert, Board, symmetry, nn::forward) are modelled from the        *)
(* design specification: nondeterministic probe, atomic per-entry insert,  *)
(* positional evaluator, the eight symmetries of the square.               *)
(* Probabilities are integers in units of 1e-4; -Inf is NegInf.            *)
(***************************************************************************)
EXTENDS Integers, Sequences, FiniteSets, TLC

\* ------------------------------------------------------------------ bounds
MaxIter == 2
MaxBatch == 2
MaxThreads == 2
NumMoves == 2
MaxDepth == 2
BoardSize == 4
NumKinds == 3
MaxPlies == 4
MaxPushes == 8
MaxNones == 2

\* ------------------------------------------------------------- variables
VARIABLES
    cfg,            \* the Param configuration of this search
    mpc,            \* position of the calling thread inside predict
    rootEvaluated,  \* the immediate forward pass of the root has run
    created,        \* the channel and the ThreadContext exist
    remaining,      \* ThreadContext.remaining (AtomicIsize)
    spawned,        \* number of worker threads spawned so far
    joined,         \* number of handles joined so far
    wpc,            \* position of every worker thread
    trace,          \* the trace of the worker's current probe
    upd,            \* entries of the trace still to be updated by insert
    wfeat,          \* features of the worker's current request
    chan,           \* the mpsc channel workers -> dispatcher
    reply,          \* the one-shot reply channel of every worker
    got,            \* what the worker received on its reply channel
    batch,          \* index of the dispatcher's outer loop
    features_list,  \* dispatcher: features of the current batch
    sender_list,    \* dispatcher: reply senders of the current batch
    results,        \* dispatcher: (values, policies) of the current batch
    ri,             \* dispatcher: index of the reply loop
    children,       \* tree: the nodes that exist
    visits,         \* tree: visit count of every edge
    vloss,          \* tree: virtual loss of every edge
    stat,           \* observation counters (not program state)
    fpc,            \* forward: position inside the augmented forward pass
    occupied,       \* forward: the points of the board that hold a stone
    illegal,        \* forward: empty points that are illegal (ko, suicide)
    raw,            \* forward: the policy the evaluator returns
    t,              \* forward: the transform drawn for this call
    si,             \* forward: index into SYMM of the merge loop
    policy,         \* forward: the policy being post-processed
    policy_sum,     \* forward: the sum the policy was divided by (0: none)
    before,         \* forward: the policy before the latest merge step
    merged,         \* forward: the transform of the latest merge step
    spc,            \* self_play: position (play, resigned, ended)
    board,          \* self_play: the board of the game
    sgf,            \* self_play: the game record, one entry per format!
    current,        \* self_play: the colour to move
    pass_count,     \* self_play: consecutive passes so far
    count,          \* self_play: plies played so far
    result,         \* self_play: the GameResult returned
    hist,           \* what every search returned (not program state)
    cb,             \* CircularBuf: position and buf
    pushed,         \* the values pushed so far (not program state)
    its             \* the CircularIterators that are alive

predictVars == <<cfg, mpc, rootEvaluated, created, remaining, spawned, joined,
                 wpc, trace, upd, wfeat, chan, reply, got, batch,
                 features_list, sender_list, results, ri, children, visits,
                 vloss, stat>>

fwdVars == <<fpc, occupied, illegal, raw, t, si, policy, policy_sum, before,
             merged>>

selfVars == <<spc, board, sgf, current, pass_count, count, result, hist>>

bufVars == <<cb, pushed, its>>

vars == <<predictVars, fwdVars, selfVars, bufVars>>

\* --------------------------------------------------------------- helpers
Workers == 1..MaxThreads
Moves == 1..NumMoves

RECURSIVE PathsOfLen(_)
PathsOfLen(n) ==
    IF n = 0 THEN {<<>>}
    ELSE {Append(p, m) : p \in PathsOfLen(n - 1), m \in Moves}

Nodes == UNION {PathsOfLen(n) : n \in 0..MaxDepth}
InnerNodes == UNION {PathsOfLen(n) : n \in 0..(MaxDepth - 1)}
Edges == InnerNodes \X Moves
Root == <<>>

Child(e) == Append(e[1], e[2])

\* assert_eq!(a % b, 0): a zero divisor panics as well
Divides(b, a) == b # 0 /\ a % b = 0

\* mutant: only the first of the two assertions is made
ValidConfigFirstOnly(c) == Divides(c.batch_size, c.iteration_limit)

ValidConfig(c) ==
    /\ Divides(c.batch_size, c.iteration_limit)
    /\ Divides(c.batch_size, c.thread_count)

Configs == [iteration_limit : 0..MaxIter,
            batch_size : 0..MaxBatch,
            thread_count : 0..MaxThreads]

NumBatches == cfg.iteration_limit \div cfg.batch_size

\* the evaluator: one (value, policy) per feature tensor, by position
EvalOne(f) == [from |-> f]
NNForward(fl) == [i \in 1..Len(fl) |-> EvalOne(fl[i])]

NoFeat == <<0, <<>>>>
NoReply == [from |-> NoFeat]

\* the traces a probe of the current tree can return
RECURSIVE Descend(_, _)
Descend(node, sofar) ==
    IF Len(node) = MaxDepth THEN {sofar}
    ELSE UNION { IF Append(node, m) \in children
                 THEN Descend(Append(node, m), Append(sofar, <<node, m>>))
                 ELSE {Append(sofar, <<node, m>>)} : m \in Moves }

ProbeTraces == Descend(Root, <<>>) \cup {<<>>}

EdgesOf(tr) == {tr[k] : k \in 1..Len(tr)}
NodesOf(tr) == {tr[k][1] : k \in 1..Len(tr)}

\* ---------------------------------------------------------------- Init
PredictInit ==
    /\ cfg \in Configs
    /\ mpc = "assert"
    /\ rootEvaluated = FALSE
    /\ created = FALSE
    /\ remaining = 0
    /\ spawned = 0
    /\ joined = 0
    /\ wpc = [w \in Workers |-> "idle"]
    /\ trace = [w \in Workers |-> <<>>]
    /\ upd = [w \in Workers |-> 0]
    /\ wfeat = [w \in Workers |-> NoFeat]
    /\ chan = <<>>
    /\ reply = [w \in Workers |-> <<>>]
    /\ got = [w \in Workers |-> NoReply]
    /\ batch = 0
    /\ features_list = <<>>
    /\ sender_list = <<>>
    /\ results = <<>>
    /\ ri = 0
    /\ children = {}
    /\ visits = [e \in Edges |-> 0]
    /\ vloss = [e \in Edges |-> 0]
    /\ stat = [claimed |-> 0,
               failed |-> [w \in Workers |-> 0],
               empty |-> 0,
               sent |-> 0,
               evalCalls |-> 0,
               evaluated |-> 0,
               partial |-> FALSE,
               replyLog |-> <<>>,
               replies |-> 0,
               inserts |-> 0,
               insertsDone |-> 0,
               calls |-> [n \in InnerNodes |-> 0]]

\* ----------------------------------------------- forward: board and symmetry
NP == BoardSize * BoardSize          \* index of the pass move (361)
Points == 0..(NP - 1)

\* tree::X, tree::Y and their inverse
X(i) == i % BoardSize
Y(i) == i \div BoardSize
Index(x, y) == y * BoardSize + x

SYMM == <<"Identity", "FlipLR", "FlipUD", "Transpose", "TransposeAnti",
          "Rot90", "Rot180", "Rot270">>

Last == BoardSize - 1

\* symmetry::Transform::apply on a vertex
Apply(tr, i) ==
    LET x == X(i)
        y == Y(i)
    IN CASE tr = "Identity"      -> Index(x, y)
         [] tr = "FlipLR"        -> Index(Last - x, y)
         [] tr = "FlipUD"        -> Index(x, Last - y)
         [] tr = "Transpose"     -> Index(y, x)
         [] tr = "TransposeAnti" -> Index(Last - y, Last - x)
         [] tr = "Rot90"         -> Index(Last - y, x)
         [] tr = "Rot180"        -> Index(Last - x, Last - y)
         [] tr = "Rot270"        -> Index(y, Last - x)

\* symmetry::Transform::inverse
Inverse(tr) ==
    CASE tr = "Rot90" -> "Rot270"
      [] tr = "Rot270" -> "Rot90"
      [] OTHER -> tr

\* symmetry::apply on a buffer: the entry of vertex i moves to tr(i), the
\* pass entry stays
ApplyBuf(buf, tr) ==
    [k \in 0..NP |-> IF k = NP THEN buf[NP] ELSE buf[Apply(Inverse(tr), k)]]

\* symmetry::is_symmetric
IsSymmetric(occ, tr) == \A i \in Points : (i \in occ) <=> (Apply(tr, i) \in occ)

\* Board::is_valid for the colour to move
IsValid(i) == i \notin occupied /\ i \notin illegal

\* f32: probability mass in units of 1e-4; zero is not a normal number
NegInf == -1
IsNormal(v) == v > 0
IsFinite(v) == v # NegInf
Floor == 1

Orbit(i, tr) == {i, Apply(tr, i), Apply(tr, Apply(tr, i)),
                 Apply(tr, Apply(tr, Apply(tr, i)))}

\* the boards considered: the empty board, and one stone together with its
\* images under a transform
Boards == {{}} \cup {Orbit(i, SYMM[k]) : i \in Points, k \in 1..8}

IllegalSets == {{}, Points} \cup {{i} : i \in Points}

Mass(k, i) ==
    IF k = 1 THEN 1 ELSE IF k = 2 THEN 1 + (i % 3) ELSE (i + k) % 3

RawPolicies == {[i \in 0..NP |-> Mass(k, i)] : k \in 1..NumKinds}

NoPolicy == [i \in 0..NP |-> 0]

\* the probability 1.0 in units of 1e-4
Unit == 10000

Max(a, b) == IF a >= b THEN a ELSE b
Min(a, b) == IF a <= b THEN a ELSE b

\* mod.rs:147-153  every invalid vertex becomes -Inf, the pass move is kept
Mask(pol) == [i \in 0..NP |-> IF i # NP /\ ~IsValid(i) THEN NegInf ELSE pol[i]]

\* mutant: the source entry keeps its probability after it was added
RECURSIVE MergeLoopKeepSrc(_, _, _, _)
MergeLoopKeepSrc(pol, visited, i, tr) ==
    IF i = NP THEN [ok |-> TRUE, policy |-> pol]
    ELSE LET j == Apply(tr, i)
             src == Max(i, j)
             dst == Min(i, j)
         IN IF i # j /\ i \notin visited
            THEN IF IsNormal(pol[src])
                 THEN IF ~IsNormal(pol[dst])
                      THEN [ok |-> FALSE, policy |-> pol]
                      ELSE MergeLoopKeepSrc(
                               [pol EXCEPT ![dst] = pol[dst] + pol[src]],
                               visited \cup {i, j}, i + 1, tr)
                 ELSE MergeLoopKeepSrc(pol, visited \cup {i, j}, i + 1, tr)
            ELSE MergeLoopKeepSrc(pol, visited, i + 1, tr)

\* mod.rs:168-187  the loop over the vertices for one transform; ok is FALSE
\* when the assert! of line 181 fails
RECURSIVE MergeLoop(_, _, _, _)
MergeLoop(pol, visited, i, tr) ==
    IF i = NP THEN [ok |-> TRUE, policy |-> pol]
    ELSE LET j == Apply(tr, i)
             src == Max(i, j)
             dst == Min(i, j)
         IN IF i # j /\ i \notin visited
            THEN IF IsNormal(pol[src])
                 THEN IF ~IsNormal(pol[dst])
                      THEN [ok |-> FALSE, policy |-> pol]
                      ELSE MergeLoop([pol EXCEPT ![dst] = pol[dst] + pol[src],
                                                 ![src] = NegInf],
                                     visited \cup {i, j}, i + 1, tr)
                 ELSE MergeLoop(pol, visited \cup {i, j}, i + 1, tr)
            ELSE MergeLoop(pol, visited, i + 1, tr)

\* mod.rs:161-164  the next transform of SYMM[1..8] the board is symmetric in
\* (9 when there is none)
RECURSIVE NextSymmetric(_)
NextSymmetric(k) ==
    IF k > 8 THEN 9
    ELSE IF IsSymmetric(occupied, SYMM[k]) THEN k ELSE NextSymmetric(k + 1)

\* mod.rs:192  the sum of the normal entries, the pass entry included
RECURSIVE NormalSum(_, _)
NormalSum(pol, n) ==
    IF n < 0 THEN 0
    ELSE (IF IsNormal(pol[n]) THEN pol[n] ELSE 0) + NormalSum(pol, n - 1)

FwdOff ==
    /\ fpc = "off"
    /\ occupied = {}
    /\ illegal = {}
    /\ raw = NoPolicy
    /\ t = "Identity"
    /\ si = 0
    /\ policy = NoPolicy
    /\ policy_sum = 0
    /\ before = NoPolicy
    /\ merged = "Identity"

\* ------------------------------------------------------------ self_play
Colors == {"Black", "White"}

\* Color::opposite
Opposite(c) == IF c = "Black" THEN "White" ELSE "Black"

\* mod.rs:374  value < -0.9, in hundredths
ResignThreshold == -90

\* what a search can return: a value (hundredths), the index of the best
\* move (an empty point or the pass index), the index of the move of highest
\* prior, and the distribution root.softmax() gives
Values == {-95, -90, 30}
PlayPoints == {0, NP - 1}
PriorIndexes == {0, NP}
Snapshots == {"p1", "p2"}

\* Board::new
NewBoard == [i \in Points |-> "Empty"]

\* Board::place
Place(b, c, x, y) == [b EXCEPT ![Index(x, y)] = c]

BestIndexes == {i \in PlayPoints : board[i] = "Empty"} \cup {NP}

NoResult == [kind |-> "none", winner |-> "none", margin |-> 0]

\* mod.rs:375  format!(";{}[]", current)
ResignEntry(c) ==
    [color |-> c, coords |-> <<>>, policy |-> "none", marker |-> <<>>]

\* mod.rs:380  format!(";{}[]P[{}]", current, b85::encode(&policy))
PassEntry(c, pol) ==
    [color |-> c, coords |-> <<>>, policy |-> pol, marker |-> <<>>]

\* mod.rs:387-399  format!(";{}[{}{}]P[{}]TR[{}{}]", ...)
MoveEntry(c, index, prior_index, pol) ==
    [color |-> c,
     coords |-> <<X(index), Y(index)>>,
     policy |-> pol,
     marker |-> IF prior_index = NP THEN <<BoardSize, BoardSize>>
                ELSE <<X(prior_index), Y(prior_index)>>]

Observed(value, index, prior_index, pol) ==
    [color |-> current, value |-> value, index |-> index,
     prior_index |-> prior_index, policy |-> pol, before |-> board,
     passes |-> pass_count]

SelfOff ==
    /\ spc = "off"
    /\ board = NewBoard
    /\ sgf = <<>>
    /\ current = "Black"
    /\ pass_count = 0
    /\ count = 0
    /\ result = NoResult
    /\ hist = <<>>

\* ---------------------------------------------------------- CircularBuf
Capacity == 6
Sentinel == 361

\* circular_buf.rs:23, 27  the lookup tables, indexed from 0
N_MOD_SIX(i) == <<1, 2, 3, 4, 5, 0>>[i + 1]
P_MOD_SIX(i) == <<5, 0, 1, 2, 3, 4>>[i + 1]

Slots == 0..(Capacity - 1)
Iters == 1..2

\* mutant: the slots start as 0
NewBufZero == [position |-> 0, buf |-> [k \in Slots |-> 0]]

\* CircularBuf::new
NewBuf == [position |-> 0, buf |-> [k \in Slots |-> Sentinel]]

NoIter == [alive |-> FALSE, count |-> 0, position |-> 0, out |-> <<>>,
           nones |-> 0]

BufOff ==
    /\ cb = NewBuf
    /\ pushed = <<>>
    /\ its = [k \in Iters |-> NoIter]

Init == PredictInit /\ FwdOff /\ SelfOff /\ BufOff

workerVars == <<wpc, trace, upd, wfeat, got>>
dispatchVars == <<batch, features_list, sender_list, results, ri>>
treeVars == <<children, visits, vloss>>
setupVars == <<cfg, rootEvaluated, created, spawned, joined>>

\* ------------------------------------------------------- calling thread
\* mod.rs:238-239  the two assert_eq! on the configuration
AssertConfig ==
    /\ mpc = "assert"
    /\ mpc' = IF ValidConfig(cfg) THEN "root" ELSE "failed"
    /\ UNCHANGED <<fwdVars, selfVars, bufVars>>
    /\ UNCHANGED <<setupVars, remaining, workerVars, chan, reply,
                   dispatchVars, treeVars, stat>>

\* mod.rs:243-245  immediate forward pass of the root plus dirichlet noise
RootEval ==
    /\ mpc = "root"
    /\ rootEvaluated' = TRUE
    /\ mpc' = "context"
    /\ UNCHANGED <<fwdVars, selfVars, bufVars>>
    /\ UNCHANGED <<cfg, created, spawned, joined, remaining, workerVars, chan,
                   reply, dispatchVars, treeVars, stat>>

\* mod.rs:248-254  channel(), root node, remaining counter
CreateContext ==
    /\ mpc = "context"
    /\ created' = TRUE
    /\ remaining' = cfg.iteration_limit
    /\ children' = {Root}
    /\ mpc' = "spawn"
    /\ UNCHANGED <<fwdVars, selfVars, bufVars>>
    /\ UNCHANGED <<cfg, rootEvaluated, spawned, joined, workerVars, chan,
                   reply, dispatchVars, visits, vloss, stat>>

LoopHead(b) == IF b < NumBatches THEN "recv" ELSE "join"

\* mod.rs:256-276  thread::spawn, one worker per step
Spawn ==
    /\ mpc = "spawn"
    /\ spawned < cfg.thread_count
    /\ spawned' = spawned + 1
    /\ wpc' = [wpc EXCEPT ![spawned + 1] = "claim"]
    /\ UNCHANGED <<fwdVars, selfVars, bufVars>>
    /\ UNCHANGED <<cfg, mpc, rootEvaluated, created, joined, remaining, trace,
                   upd, wfeat, got, chan, reply, dispatchVars, treeVars, stat>>

\* mod.rs:276-285  all handles collected, enter the dispatcher loop
SpawnDone ==
    /\ mpc = "spawn"
    /\ spawned = cfg.thread_count
    /\ mpc' = LoopHead(0)
    /\ UNCHANGED <<fwdVars, selfVars, bufVars>>
    /\ UNCHANGED <<setupVars, remaining, workerVars, chan, reply,
                   dispatchVars, treeVars, stat>>

\* mutant: the inner loop collects one request too few
DispatchRecvShort ==
    /\ mpc = "recv"
    /\ chan # <<>>
    /\ chan' = Tail(chan)
    /\ features_list' = Append(features_list, Head(chan)[1])
    /\ sender_list' = Append(sender_list, Head(chan)[2])
    /\ mpc' = IF Len(features_list) + 1 >= cfg.batch_size - 1 THEN "eval" ELSE "recv"
    /\ UNCHANGED <<fwdVars, selfVars, bufVars>>
    /\ UNCHANGED <<setupVars, remaining, workerVars, reply, batch, results,
                   ri, treeVars, stat>>

\* mod.rs:290-295  receiver.recv() of one request of the batch
DispatchRecv ==
    /\ mpc = "recv"
    /\ chan # <<>>
    /\ chan' = Tail(chan)
    /\ features_list' = Append(features_list, Head(chan)[1])
    /\ sender_list' = Append(sender_list, Head(chan)[2])
    /\ mpc' = IF Len(features_list) + 1 = cfg.batch_size THEN "eval" ELSE "recv"
    /\ UNCHANGED <<fwdVars, selfVars, bufVars>>
    /\ UNCHANGED <<setupVars, remaining, workerVars, reply, batch, results,
                   ri, treeVars, stat>>

\* mod.rs:299  nn::forward on the collected batch
DispatchEval ==
    /\ mpc = "eval"
    /\ results' = NNForward(features_list)
    /\ ri' = 1
    /\ mpc' = "reply"
    /\ stat' = [stat EXCEPT !.evalCalls = @ + 1,
                            !.evaluated = @ + Len(features_list),
                            !.partial = @ \/ Len(features_list) # cfg.batch_size,
                            !.replyLog = <<>>]
    /\ UNCHANGED <<fwdVars, selfVars, bufVars>>
    /\ UNCHANGED <<setupVars, remaining, workerVars, chan, reply, batch,
                   features_list, sender_list, treeVars>>

\* mutant: the i-th sender gets the result of the mirrored position
DispatchReplyCrossed ==
    /\ mpc = "reply"
    /\ ri <= Len(results)
    /\ reply' = [reply EXCEPT ![sender_list[ri]] =
                     Append(@, results[Len(results) + 1 - ri])]
    /\ ri' = ri + 1
    /\ stat' = [stat EXCEPT !.replyLog = Append(@, <<sender_list[ri],
                                              results[Len(results) + 1 - ri]>>),
                            !.replies = @ + 1]
    /\ UNCHANGED <<fwdVars, selfVars, bufVars>>
    /\ UNCHANGED <<setupVars, mpc, remaining, workerVars, chan, batch,
                   features_list, sender_list, results, treeVars>>

\* mod.rs:301-303  sender_list[i].send((values[i], policy))
DispatchReply ==
    /\ mpc = "reply"
    /\ ri <= Len(results)
    /\ reply' = [reply EXCEPT ![sender_list[ri]] = Append(@, results[ri])]
    /\ ri' = ri + 1
    /\ stat' = [stat EXCEPT !.replyLog = Append(@, <<sender_list[ri], results[ri]>>),
                            !.replies = @ + 1]
    /\ UNCHANGED <<fwdVars, selfVars, bufVars>>
    /\ UNCHANGED <<setupVars, mpc, remaining, workerVars, chan, batch,
                   features_list, sender_list, results, treeVars>>

\* mod.rs:304  end of one dispatcher iteration, the lists are dropped
BatchDone ==
    /\ mpc = "reply"
    /\ ri > Len(results)
    /\ batch' = batch + 1
    /\ features_list' = <<>>
    /\ sender_list' = <<>>
    /\ results' = <<>>
    /\ ri' = 0
    /\ mpc' = LoopHead(batch + 1)
    /\ UNCHANGED <<fwdVars, selfVars, bufVars>>
    /\ UNCHANGED <<setupVars, remaining, workerVars, chan, reply, treeVars,
                   stat>>

\* mutant: the handles are dropped without waiting for the threads
JoinNoWait ==
    /\ mpc = "join"
    /\ joined < cfg.thread_count
    /\ joined' = joined + 1
    /\ UNCHANGED <<fwdVars, selfVars, bufVars>>
    /\ UNCHANGED <<cfg, mpc, rootEvaluated, created, spawned, remaining,
                   workerVars, chan, reply, dispatchVars, treeVars, stat>>

\* mod.rs:308  handle.join() blocks until that worker has left its closure
Join ==
    /\ mpc = "join"
    /\ joined < cfg.thread_count
    /\ wpc[joined + 1] = "exited"
    /\ joined' = joined + 1
    /\ UNCHANGED <<fwdVars, selfVars, bufVars>>
    /\ UNCHANGED <<cfg, mpc, rootEvaluated, created, spawned, remaining,
                   workerVars, chan, reply, dispatchVars, treeVars, stat>>

\* mod.rs:310-320  best / prior / softmax of the root, predict returns
Result ==
    /\ mpc = "join"
    /\ joined = cfg.thread_count
    /\ mpc' = "done"
    /\ UNCHANGED <<fwdVars, selfVars, bufVars>>
    /\ UNCHANGED <<setupVars, remaining, workerVars, chan, reply,
                   dispatchVars, treeVars, stat>>

\* ------------------------------------------------------- worker threads
\* mutant: the claim test is >= 0 instead of > 0
ClaimOffByOne(w) ==
    /\ wpc[w] = "claim"
    /\ remaining' = remaining - 1
    /\ IF remaining >= 0
       THEN /\ wpc' = [wpc EXCEPT ![w] = "probe"]
            /\ stat' = [stat EXCEPT !.claimed = @ + 1]
       ELSE /\ wpc' = [wpc EXCEPT ![w] = "exited"]
            /\ stat' = [stat EXCEPT !.failed[w] = @ + 1]
    /\ UNCHANGED <<fwdVars, selfVars, bufVars>>
    /\ UNCHANGED <<setupVars, mpc, trace, upd, wfeat, got, chan, reply,
                   dispatchVars, treeVars>>

\* mod.rs:262  context.remaining.fetch_sub(1) > 0
Claim(w) ==
    /\ wpc[w] = "claim"
    /\ remaining' = remaining - 1
    /\ IF remaining > 0
       THEN /\ wpc' = [wpc EXCEPT ![w] = "probe"]
            /\ stat' = [stat EXCEPT !.claimed = @ + 1]
       ELSE /\ wpc' = [wpc EXCEPT ![w] = "exited"]
            /\ stat' = [stat EXCEPT !.failed[w] = @ + 1]
    /\ UNCHANGED <<fwdVars, selfVars, bufVars>>
    /\ UNCHANGED <<setupVars, mpc, trace, upd, wfeat, got, chan, reply,
                   dispatchVars, treeVars>>

\* mutant: the request is sent whether or not the trace is empty
ProbeAlwaysSends(w) ==
    /\ wpc[w] = "probe"
    /\ \E tr \in ProbeTraces :
         /\ trace' = [trace EXCEPT ![w] = tr]
         /\ vloss' = [e \in Edges |-> IF e \in EdgesOf(tr) THEN vloss[e] + 1
                                       ELSE vloss[e]]
         /\ wpc' = [wpc EXCEPT ![w] = "send"]
         /\ IF tr = <<>>
            THEN /\ wfeat' = [wfeat EXCEPT ![w] = <<w, Root>>]
                 /\ stat' = [stat EXCEPT !.empty = @ + 1]
            ELSE /\ wfeat' = [wfeat EXCEPT ![w] = <<w, Child(tr[Len(tr)])>>]
                 /\ stat' = stat
    /\ UNCHANGED <<fwdVars, selfVars, bufVars>>
    /\ UNCHANGED <<setupVars, mpc, remaining, upd, got, chan, reply,
                   dispatchVars, children, visits>>

\* tree::probe, mod.rs:263-266: select and descend, virtual loss on the path
Probe(w) ==
    /\ wpc[w] = "probe"
    /\ \E tr \in ProbeTraces :
         /\ trace' = [trace EXCEPT ![w] = tr]
         /\ vloss' = [e \in Edges |-> IF e \in EdgesOf(tr) THEN vloss[e] + 1
                                       ELSE vloss[e]]
         /\ IF tr = <<>>
            THEN /\ wpc' = [wpc EXCEPT ![w] = "claim"]
                 /\ wfeat' = wfeat
                 /\ stat' = [stat EXCEPT !.empty = @ + 1]
            ELSE /\ wpc' = [wpc EXCEPT ![w] = "send"]
                 /\ wfeat' = [wfeat EXCEPT ![w] = <<w, Child(tr[Len(tr)])>>]
                 /\ stat' = stat
    /\ UNCHANGED <<fwdVars, selfVars, bufVars>>
    /\ UNCHANGED <<setupVars, mpc, remaining, upd, got, chan, reply,
                   dispatchVars, children, visits>>

\* mutant: the worker does not wait for the reply of the request it sent
SendNoWait(w) ==
    /\ wpc[w] = "send"
    /\ chan' = Append(chan, <<wfeat[w], w>>)
    /\ wpc' = [wpc EXCEPT ![w] = "claim"]
    /\ trace' = [trace EXCEPT ![w] = <<>>]
    /\ stat' = [stat EXCEPT !.sent = @ + 1]
    /\ UNCHANGED <<fwdVars, selfVars, bufVars>>
    /\ UNCHANGED <<setupVars, mpc, remaining, upd, wfeat, got, reply,
                   dispatchVars, treeVars>>

\* mod.rs:96-98  RemoteForward::forward: fresh reply channel, send request
Send(w) ==
    /\ wpc[w] = "send"
    /\ chan' = Append(chan, <<wfeat[w], w>>)
    /\ wpc' = [wpc EXCEPT ![w] = "wait"]
    /\ stat' = [stat EXCEPT !.sent = @ + 1]
    /\ UNCHANGED <<fwdVars, selfVars, bufVars>>
    /\ UNCHANGED <<setupVars, mpc, remaining, trace, upd, wfeat, got, reply,
                   dispatchVars, treeVars>>

\* mod.rs:99-101  receiver.recv() on the reply channel
Recv(w) ==
    /\ wpc[w] = "wait"
    /\ reply[w] # <<>>
    /\ got' = [got EXCEPT ![w] = Head(reply[w])]
    /\ reply' = [reply EXCEPT ![w] = Tail(@)]
    /\ wpc' = [wpc EXCEPT ![w] = "insert"]
    /\ UNCHANGED <<fwdVars, selfVars, bufVars>>
    /\ UNCHANGED <<setupVars, mpc, remaining, trace, upd, wfeat, chan,
                   dispatchVars, treeVars, stat>>

\* mod.rs:270-272  the call of tree::insert; insert creates the missing child
InsertCall(w) ==
    /\ wpc[w] = "insert"
    /\ children' = children \cup {Child(trace[w][Len(trace[w])])}
    /\ upd' = [upd EXCEPT ![w] = Len(trace[w])]
    /\ wpc' = [wpc EXCEPT ![w] = "update"]
    /\ stat' = [stat EXCEPT !.inserts = @ + 1,
                            !.calls = [n \in InnerNodes |->
                                IF n \in NodesOf(trace[w]) THEN @[n] + 1
                                ELSE @[n]]]
    /\ UNCHANGED <<fwdVars, selfVars, bufVars>>
    /\ UNCHANGED <<setupVars, mpc, remaining, trace, wfeat, got, chan, reply,
                   dispatchVars, visits, vloss>>

\* mutant: the accumulation is a plain store of 1, earlier visits are lost
InsertUpdateLossy(w) ==
    /\ wpc[w] = "update"
    /\ LET e == trace[w][upd[w]] IN
         /\ visits' = [visits EXCEPT ![e] = 1]
         /\ vloss' = [vloss EXCEPT ![e] = @ - 1]
    /\ IF upd[w] = 1
       THEN /\ wpc' = [wpc EXCEPT ![w] = "claim"]
            /\ upd' = [upd EXCEPT ![w] = 0]
            /\ trace' = [trace EXCEPT ![w] = <<>>]
            /\ wfeat' = [wfeat EXCEPT ![w] = NoFeat]
            /\ got' = [got EXCEPT ![w] = NoReply]
            /\ stat' = [stat EXCEPT !.insertsDone = @ + 1]
       ELSE /\ upd' = [upd EXCEPT ![w] = @ - 1]
            /\ UNCHANGED <<wpc, trace, wfeat, got, stat>>
    /\ UNCHANGED <<fwdVars, selfVars, bufVars>>
    /\ UNCHANGED <<setupVars, mpc, remaining, chan, reply, dispatchVars,
                   children>>

\* tree::insert walking the trace back to the root: one atomic accumulation
\* per entry, the virtual loss of the entry is taken back
InsertUpdate(w) ==
    /\ wpc[w] = "update"
    /\ LET e == trace[w][upd[w]] IN
         /\ visits' = [visits EXCEPT ![e] = @ + 1]
         /\ vloss' = [vloss EXCEPT ![e] = @ - 1]
    /\ IF upd[w] = 1
       THEN /\ wpc' = [wpc EXCEPT ![w] = "claim"]
            /\ upd' = [upd EXCEPT ![w] = 0]
            /\ trace' = [trace EXCEPT ![w] = <<>>]
            /\ wfeat' = [wfeat EXCEPT ![w] = NoFeat]
            /\ got' = [got EXCEPT ![w] = NoReply]
            /\ stat' = [stat EXCEPT !.insertsDone = @ + 1]
       ELSE /\ upd' = [upd EXCEPT ![w] = @ - 1]
            /\ UNCHANGED <<wpc, trace, wfeat, got, stat>>
    /\ UNCHANGED <<fwdVars, selfVars, bufVars>>
    /\ UNCHANGED <<setupVars, mpc, remaining, chan, reply, dispatchVars,
                   children>>

Next ==
    \/ AssertConfig
    \/ RootEval
    \/ CreateContext
    \/ Spawn
    \/ SpawnDone
    \/ DispatchRecv
    \/ DispatchEval
    \/ DispatchReply
    \/ BatchDone
    \/ Join
    \/ Result
    \/ \E w \in Workers : Claim(w)
    \/ \E w \in Workers : Probe(w)
    \/ \E w \in Workers : Send(w)
    \/ \E w \in Workers : Recv(w)
    \/ \E w \in Workers : InsertCall(w)
    \/ \E w \in Workers : InsertUpdate(w)

Spec == Init /\ [][Next]_vars

\* a thread that can take a step is scheduled in the end
SpecFair == Spec /\ WF_vars(Next)

\* --------------------------------------- predict with a failing evaluator
\* the reply sender of worker w was dropped without a reply: the request is
\* neither queued nor held in the dispatcher's sender_list
SenderDropped(w) ==
    /\ wpc[w] = "wait"
    /\ reply[w] = <<>>
    /\ \A k \in 1..Len(chan) : chan[k][2] # w
    /\ \A k \in 1..Len(sender_list) : sender_list[k] # w

\* mod.rs:299  nn::forward returns fewer policies than the batch held
DispatchEvalShort ==
    /\ mpc = "eval"
    /\ \E n \in 0..(Len(features_list) - 1) :
         results' = SubSeq(NNForward(features_list), 1, n)
    /\ ri' = 1
    /\ mpc' = "reply"
    /\ stat' = [stat EXCEPT !.evalCalls = @ + 1,
                            !.evaluated = @ + Len(features_list),
                            !.partial = @ \/ Len(features_list) # cfg.batch_size,
                            !.replyLog = <<>>]
    /\ UNCHANGED <<fwdVars, selfVars, bufVars>>
    /\ UNCHANGED <<setupVars, remaining, workerVars, chan, reply, batch,
                   features_list, sender_list, treeVars>>

\* mod.rs:99  receiver.recv().unwrap() on a reply channel whose sender was
\* dropped: the worker thread panics
RecvFailed(w) ==
    /\ SenderDropped(w)
    /\ wpc' = [wpc EXCEPT ![w] = "panicked"]
    /\ UNCHANGED <<fwdVars, selfVars, bufVars>>
    /\ UNCHANGED <<setupVars, mpc, remaining, trace, upd, wfeat, got, chan,
                   reply, dispatchVars, treeVars, stat>>

\* mod.rs:308  handle.join().unwrap() on a worker that panicked
JoinPanicked ==
    /\ mpc = "join"
    /\ joined < cfg.thread_count
    /\ wpc[joined + 1] = "panicked"
    /\ mpc' = "failed"
    /\ UNCHANGED <<fwdVars, selfVars, bufVars>>
    /\ UNCHANGED <<setupVars, remaining, workerVars, chan, reply,
                   dispatchVars, treeVars, stat>>

NextFaulty ==
    \/ Next
    \/ DispatchEvalShort
    \/ \E w \in Workers : RecvFailed(w)
    \/ JoinPanicked

SpecFaulty == Init /\ [][NextFaulty]_vars

\* ------------------------------------------------ augmented forward pass
PredictOff ==
    /\ cfg = [iteration_limit |-> 0, batch_size |-> 0, thread_count |-> 0]
    /\ mpc = "off"
    /\ rootEvaluated = FALSE
    /\ created = FALSE
    /\ remaining = 0
    /\ spawned = 0
    /\ joined = 0
    /\ wpc = [w \in Workers |-> "idle"]
    /\ trace = [w \in Workers |-> <<>>]
    /\ upd = [w \in Workers |-> 0]
    /\ wfeat = [w \in Workers |-> NoFeat]
    /\ chan = <<>>
    /\ reply = [w \in Workers |-> <<>>]
    /\ got = [w \in Workers |-> NoReply]
    /\ batch = 0
    /\ features_list = <<>>
    /\ sender_list = <<>>
    /\ results = <<>>
    /\ ri = 0
    /\ children = {}
    /\ visits = [e \in Edges |-> 0]
    /\ vloss = [e \in Edges |-> 0]
    /\ stat = [claimed |-> 0,
               failed |-> [w \in Workers |-> 0],
               empty |-> 0,
               sent |-> 0,
               evalCalls |-> 0,
               evaluated |-> 0,
               partial |-> FALSE,
               replyLog |-> <<>>,
               replies |-> 0,
               inserts |-> 0,
               insertsDone |-> 0,
               calls |-> [n \in InnerNodes |-> 0]]

\* a call of forward: a board, the legality of its empty points for the
\* colour to move, and the policy the evaluator is going to return
FwdInit ==
    /\ fpc = "call"
    /\ occupied \in Boards
    /\ illegal \in IllegalSets
    /\ raw \in RawPolicies
    /\ t = "Identity"
    /\ si = 0
    /\ policy = NoPolicy
    /\ policy_sum = 0
    /\ before = NoPolicy
    /\ merged = "Identity"

InitForward == PredictOff /\ FwdInit /\ SelfOff /\ BufOff

\* mod.rs:133-142  draw a transform, evaluate the transformed features, undo
\* the transform on the policy
FwdEval ==
    /\ fpc = "call"
    /\ \E k \in 1..8 :
         /\ t' = SYMM[k]
         /\ policy' = ApplyBuf(raw, Inverse(SYMM[k]))
    /\ fpc' = "mask"
    /\ UNCHANGED <<occupied, illegal, raw, si, policy_sum, before, merged>>
    /\ UNCHANGED <<predictVars, selfVars, bufVars>>

\* mutant: the masking loop runs over all 362 entries, the pass move included
FwdMaskAll ==
    /\ fpc = "mask"
    /\ policy' = [i \in 0..NP |-> IF i = NP \/ ~IsValid(i) THEN NegInf
                                  ELSE policy[i]]
    /\ si' = NextSymmetric(2)
    /\ fpc' = IF NextSymmetric(2) > 8 THEN "renorm" ELSE "merge"
    /\ UNCHANGED <<occupied, illegal, raw, t, policy_sum, before, merged>>
    /\ UNCHANGED <<predictVars, selfVars, bufVars>>

\* mod.rs:147-153  mask the invalid moves
FwdMask ==
    /\ fpc = "mask"
    /\ policy' = Mask(policy)
    /\ si' = NextSymmetric(2)
    /\ fpc' = IF NextSymmetric(2) > 8 THEN "renorm" ELSE "merge"
    /\ UNCHANGED <<occupied, illegal, raw, t, policy_sum, before, merged>>
    /\ UNCHANGED <<predictVars, selfVars, bufVars>>

\* mod.rs:161-188  one iteration of the loop over SYMM[1..8] that is not
\* skipped: merge under SYMM[si], or panic in the assert!
FwdMerge ==
    /\ fpc = "merge"
    /\ LET r == MergeLoop(policy, {}, 0, SYMM[si]) IN
         /\ before' = policy
         /\ merged' = SYMM[si]
         /\ IF r.ok
            THEN /\ policy' = r.policy
                 /\ si' = NextSymmetric(si + 1)
                 /\ fpc' = IF NextSymmetric(si + 1) > 8 THEN "renorm" ELSE "merge"
            ELSE /\ policy' = policy
                 /\ si' = si
                 /\ fpc' = "panic"
    /\ UNCHANGED <<occupied, illegal, raw, t, policy_sum>>
    /\ UNCHANGED <<predictVars, selfVars, bufVars>>

\* mutant: the sum runs over the board entries only, the pass entry is left out
FwdRenormBoardOnly ==
    /\ fpc = "renorm"
    /\ policy_sum' = IF NormalSum(policy, NP - 1) > Floor
                     THEN NormalSum(policy, NP - 1) ELSE 0
    /\ fpc' = "done"
    /\ UNCHANGED <<occupied, illegal, raw, t, si, policy, before, merged>>
    /\ UNCHANGED <<predictVars, selfVars, bufVars>>

\* mod.rs:192-202  renormalise: every entry is multiplied by 1 / policy_sum
\* (kept as the divisor policy_sum) unless the sum is not above the floor
FwdRenorm ==
    /\ fpc = "renorm"
    /\ policy_sum' = IF NormalSum(policy, NP) > Floor
                     THEN NormalSum(policy, NP) ELSE 0
    /\ fpc' = "done"
    /\ UNCHANGED <<occupied, illegal, raw, t, si, policy, before, merged>>
    /\ UNCHANGED <<predictVars, selfVars, bufVars>>

NextForward ==
    \/ FwdEval
    \/ FwdMask
    \/ FwdMerge
    \/ FwdRenorm

SpecForward == InitForward /\ [][NextForward]_vars

\* ------------------------------------------------------------- self_play
\* mod.rs:354-358  the state self_play starts from
SelfInit ==
    /\ spc = "play"
    /\ board = NewBoard
    /\ sgf = <<>>
    /\ current = "Black"
    /\ pass_count = 0
    /\ count = 0
    /\ result = NoResult
    /\ hist = <<>>

InitSelfPlay == PredictOff /\ FwdOff /\ SelfInit /\ BufOff

\* mutant: the resignation test is <= instead of <
PlyResignAtThreshold ==
    /\ spc = "play"
    /\ count < MaxPlies
    /\ \E value \in Values, index \in BestIndexes,
          prior_index \in PriorIndexes, pol \in Snapshots :
         /\ value <= ResignThreshold
         /\ sgf' = Append(sgf, ResignEntry(current))
         /\ result' = [kind |-> "Resign", winner |-> Opposite(current),
                       margin |-> 0 - value]
         /\ hist' = Append(hist, Observed(value, index, prior_index, pol))
    /\ spc' = "resigned"
    /\ UNCHANGED <<board, current, pass_count, count>>
    /\ UNCHANGED <<predictVars, fwdVars, bufVars>>

\* mod.rs:363-377  a ply whose search returns a value below the threshold
PlyResign ==
    /\ spc = "play"
    /\ count < MaxPlies
    /\ \E value \in Values, index \in BestIndexes,
          prior_index \in PriorIndexes, pol \in Snapshots :
         /\ value < ResignThreshold
         /\ sgf' = Append(sgf, ResignEntry(current))
         /\ result' = [kind |-> "Resign", winner |-> Opposite(current),
                       margin |-> 0 - value]
         /\ hist' = Append(hist, Observed(value, index, prior_index, pol))
    /\ spc' = "resigned"
    /\ UNCHANGED <<board, current, pass_count, count>>
    /\ UNCHANGED <<predictVars, fwdVars, bufVars>>

\* mutant: a pass ply skips the end of the loop body
PlyPassKeepsColor ==
    /\ spc = "play"
    /\ count < MaxPlies
    /\ \E value \in Values, prior_index \in PriorIndexes, pol \in Snapshots :
         /\ ~(value < ResignThreshold)
         /\ sgf' = Append(sgf, PassEntry(current, pol))
         /\ hist' = Append(hist, Observed(value, NP, prior_index, pol))
    /\ pass_count' = pass_count + 1
    /\ IF pass_count + 1 >= 2
       THEN /\ spc' = "ended"
            /\ result' = [kind |-> "Ended", winner |-> "none", margin |-> 0]
       ELSE UNCHANGED <<spc, result>>
    /\ UNCHANGED <<board, current, count>>
    /\ UNCHANGED <<predictVars, fwdVars, bufVars>>

\* mod.rs:363-385, 406-407  a ply whose search chooses the pass index
PlyPass ==
    /\ spc = "play"
    /\ count < MaxPlies
    /\ \E value \in Values, prior_index \in PriorIndexes, pol \in Snapshots :
         /\ ~(value < ResignThreshold)
         /\ sgf' = Append(sgf, PassEntry(current, pol))
         /\ hist' = Append(hist, Observed(value, NP, prior_index, pol))
    /\ pass_count' = pass_count + 1
    /\ IF pass_count + 1 >= 2
       THEN /\ spc' = "ended"
            /\ result' = [kind |-> "Ended", winner |-> "none", margin |-> 0]
            /\ UNCHANGED <<current, count>>
       ELSE /\ current' = Opposite(current)
            /\ count' = count + 1
            /\ UNCHANGED <<spc, result>>
    /\ UNCHANGED board
    /\ UNCHANGED <<predictVars, fwdVars, bufVars>>

\* mutant: a ply that places a stone leaves the pass counter as it is
PlyPlaceNoReset ==
    /\ spc = "play"
    /\ count < MaxPlies
    /\ \E value \in Values, index \in BestIndexes \ {NP},
          prior_index \in PriorIndexes, pol \in Snapshots :
         /\ ~(value < ResignThreshold)
         /\ sgf' = Append(sgf, MoveEntry(current, index, prior_index, pol))
         /\ board' = Place(board, current, X(index), Y(index))
         /\ hist' = Append(hist, Observed(value, index, prior_index, pol))
    /\ current' = Opposite(current)
    /\ count' = count + 1
    /\ UNCHANGED <<spc, result, pass_count>>
    /\ UNCHANGED <<predictVars, fwdVars, bufVars>>

\* mod.rs:363-373, 386-407  a ply whose search chooses a board point
PlyPlace ==
    /\ spc = "play"
    /\ count < MaxPlies
    /\ \E value \in Values, index \in BestIndexes \ {NP},
          prior_index \in PriorIndexes, pol \in Snapshots :
         /\ ~(value < ResignThreshold)
         /\ sgf' = Append(sgf, MoveEntry(current, index, prior_index, pol))
         /\ board' = Place(board, current, X(index), Y(index))
         /\ hist' = Append(hist, Observed(value, index, prior_index, pol))
    /\ pass_count' = 0
    /\ current' = Opposite(current)
    /\ count' = count + 1
    /\ UNCHANGED <<spc, result>>
    /\ UNCHANGED <<predictVars, fwdVars, bufVars>>

\* mod.rs:363, 410  the loop ends at the cap, GameResult::Ended
CapReached ==
    /\ spc = "play"
    /\ ~(count < MaxPlies)
    /\ spc' = "ended"
    /\ result' = [kind |-> "Ended", winner |-> "none", margin |-> 0]
    /\ UNCHANGED <<board, sgf, current, pass_count, count, hist>>
    /\ UNCHANGED <<predictVars, fwdVars, bufVars>>

NextSelfPlay ==
    \/ PlyResign
    \/ PlyPass
    \/ PlyPlace
    \/ CapReached

SpecSelfPlay == InitSelfPlay /\ [][NextSelfPlay]_vars

\* every search returns, so the loop of self_play keeps taking steps
SpecSelfPlayFair == SpecSelfPlay /\ WF_vars(NextSelfPlay)

\* ================================================================ claims
Running == 1..cfg.thread_count
Blocked(w) == wpc[w] = "wait" /\ reply[w] = <<>>

RECURSIVE SumTo(_, _)
SumTo(f, n) == IF n = 0 THEN 0 ELSE f[n] + SumTo(f, n - 1)

FailedTotal == SumTo(stat.failed, MaxThreads)
CountW(S) == Cardinality({w \in Workers : wpc[w] \in S})

\* the dispatcher waits for a request that no worker is going to send
DispatcherStuck ==
    /\ mpc = "recv"
    /\ chan = <<>>
    /\ \A w \in Running : wpc[w] = "exited" \/ Blocked(w)

\* C1: with a configuration that passes both assertions (and has a worker)
\* predict terminates: no state is reachable in which the dispatcher is
\* blocked on receive while no worker will ever send again (stated as
\* claimed; the code violates it)
C1_NoStuckDispatcher ==
    (ValidConfig(cfg) /\ cfg.thread_count >= 1) => ~DispatcherStuck

\* C2: the dispatcher runs iteration_limit / batch_size iterations, calls the
\* evaluator once per iteration on exactly batch_size requests and never on
\* a partial batch; at termination it was called iteration_limit /
\* batch_size times on iteration_limit requests in total
C2_FullBatches ==
    (ValidConfig(cfg) /\ mpc \notin {"assert", "failed"}) =>
        /\ batch <= NumBatches
        /\ stat.evalCalls = batch + (IF mpc = "reply" THEN 1 ELSE 0)
        /\ stat.evaluated = stat.evalCalls * cfg.batch_size
        /\ ~stat.partial
        /\ Len(features_list) <= cfg.batch_size
        /\ mpc \in {"eval", "reply"} => Len(features_list) = cfg.batch_size
        /\ mpc \in {"join", "done"} =>
              /\ batch = NumBatches
              /\ stat.evalCalls = NumBatches
              /\ stat.evaluated = cfg.iteration_limit

C2_Witness ==
    /\ mpc = "done"
    /\ cfg.batch_size = 2
    /\ cfg.thread_count = 2
    /\ stat.evalCalls = 1
    /\ stat.evaluated = 2

\* C3: within a batch the replies go out in the order the requests came in,
\* the i-th request gets the evaluator's result for the i-th features, every
\* worker receives the result of its own features, one reply per request
C3_RepliesMatchRequests ==
    /\ mpc = "reply" =>
          /\ Len(stat.replyLog) = ri - 1
          /\ \A k \in 1..Len(stat.replyLog) :
                stat.replyLog[k] = <<sender_list[k], EvalOne(features_list[k])>>
    /\ \A w \in Workers :
          /\ Len(reply[w]) <= 1
          /\ reply[w] # <<>> =>
                wpc[w] = "wait" /\ reply[w][1] = EvalOne(wfeat[w])
          /\ wpc[w] \in {"insert", "update"} =>
                got[w] = EvalOne(wfeat[w]) /\ wfeat[w][1] = w
    /\ stat.replies <= stat.sent
    /\ mpc \in {"join", "done"} => stat.replies = stat.sent

C3_Witness ==
    /\ mpc = "reply"
    /\ Len(stat.replyLog) = 2
    /\ sender_list[1] = 2
    /\ sender_list[2] = 1
    /\ features_list[1] # features_list[2]
    /\ wpc[1] = "insert"
    /\ reply[2] # <<>>

\* C4: the counter starts at iteration_limit and only goes down by one per
\* claim; never more than iteration_limit iterations are claimed; a worker
\* that stopped made exactly one failing claim; once the workers have
\* stopped, and when predict returns, exactly iteration_limit iterations
\* were claimed and the counter is -thread_count
C4_CounterAccounting ==
    created =>
        /\ remaining = cfg.iteration_limit - stat.claimed - FailedTotal
        /\ stat.claimed <= cfg.iteration_limit
        /\ \A w \in Workers :
              /\ stat.failed[w] <= 1
              /\ (wpc[w] = "exited") <=> (stat.failed[w] = 1)
        /\ (cfg.thread_count >= 1 /\ \A w \in Running : wpc[w] = "exited") =>
              /\ stat.claimed = cfg.iteration_limit
              /\ remaining = 0 - cfg.thread_count
        /\ mpc = "done" =>
              /\ stat.claimed = cfg.iteration_limit
              /\ remaining = 0 - cfg.thread_count

C4_Witness ==
    /\ mpc = "done"
    /\ cfg.thread_count = 2
    /\ cfg.iteration_limit = 2
    /\ remaining = -2
    /\ stat.claimed = 2

\* C5: the inserts performed are the claimed iterations whose probe gave a
\* non-empty trace; an empty trace sends no request and inserts nothing;
\* when predict returns the inserts number iteration_limit minus the empty
\* probes
C5_InsertsMatchProbes ==
    created =>
        /\ stat.sent = stat.claimed - stat.empty - CountW({"probe", "send"})
        /\ stat.inserts = stat.sent - CountW({"wait", "insert"})
        /\ stat.insertsDone = stat.inserts - CountW({"update"})
        /\ \A w \in Workers :
              wpc[w] \in {"claim", "exited", "idle", "probe"} => trace[w] = <<>>
        /\ mpc = "done" =>
              /\ stat.inserts = cfg.iteration_limit - stat.empty
              /\ stat.insertsDone = stat.inserts

C5_Witness ==
    /\ mpc = "done"
    /\ cfg.iteration_limit = 2
    /\ stat.insertsDone = 2
    /\ stat.empty = 0

\* C6: the result is read only after the dispatcher loop is over and every
\* worker is joined: then no worker runs, no request is unanswered and no
\* insert is under way
C6_ResultAfterJoin ==
    mpc = "done" =>
        /\ batch = NumBatches
        /\ joined = cfg.thread_count
        /\ \A w \in Running : wpc[w] = "exited"
        /\ chan = <<>>
        /\ \A w \in Workers : reply[w] = <<>>
        /\ stat.replies = stat.sent
        /\ stat.insertsDone = stat.inserts
        /\ \A e \in Edges : vloss[e] = 0

C6_Witness ==
    /\ mpc = "done"
    /\ cfg.thread_count = 2
    /\ stat.insertsDone >= 2
    /\ joined = 2

\* C7: a configuration that fails one of the divisibility assertions makes
\* predict fail before the root is evaluated, before counter and channel
\* exist and before any worker is spawned
C7_FailFast ==
    (\/ cfg.batch_size = 0
     \/ cfg.iteration_limit % cfg.batch_size # 0
     \/ cfg.thread_count % cfg.batch_size # 0) =>
        /\ mpc \in {"assert", "failed"}
        /\ ~rootEvaluated
        /\ ~created
        /\ spawned = 0
        /\ remaining = 0
        /\ children = {}
        /\ chan = <<>>
        /\ \A w \in Workers : wpc[w] = "idle"

C7_Witness ==
    /\ mpc = "failed"
    /\ cfg.batch_size = 2
    /\ cfg.iteration_limit = 2
    /\ cfg.thread_count = 1

\* number of inserts under way that have not yet updated their entry at n
PendingAt(n) ==
    Cardinality({w \in Workers :
        wpc[w] = "update" /\ \E k \in 1..upd[w] : trace[w][k][1] = n})

RECURSIVE NodeVisits(_, _)
NodeVisits(n, m) ==
    IF m = 0 THEN 0 ELSE visits[<<n, m>>] + NodeVisits(n, m - 1)

\* C8: at every node the visit counts of its entries add up to the number
\* of insert calls whose trace passed through the node (less the updates
\* still under way); after the search no update is lost or doubled
C8_VisitsMatchInserts ==
    \A n \in InnerNodes :
        /\ NodeVisits(n, NumMoves) = stat.calls[n] - PendingAt(n)
        /\ mpc = "done" => NodeVisits(n, NumMoves) = stat.calls[n]

C8_Witness ==
    /\ mpc = "done"
    /\ cfg.thread_count = 2
    /\ NodeVisits(Root, NumMoves) = 2
    /\ visits[<<Root, 1>>] = 1
    /\ visits[<<Root, 2>>] = 1
    /\ stat.calls[Root] = 2

\* ------------------------------------------- claims on the forward pass
RECURSIVE FiniteMass(_, _)
FiniteMass(pol, n) ==
    IF n < 0 THEN 0
    ELSE (IF IsFinite(pol[n]) THEN pol[n] ELSE 0) + FiniteMass(pol, n - 1)

\* C9: once the mask has run, and in the policy that is returned, every
\* board point that is illegal for the colour to move is -Inf, and the pass
\* entry is never -Inf: mask, merge and renormalisation leave it the finite
\* value the evaluator gave it (divided by policy_sum at the end)
C9_IllegalMaskedPassKept ==
    fpc \in {"merge", "renorm", "done"} =>
        /\ \A i \in Points :
              (i \in occupied \/ i \in illegal) => policy[i] = NegInf
        /\ policy[NP] # NegInf
        /\ policy[NP] = raw[NP]

C9_Witness ==
    /\ fpc = "done"
    /\ occupied # {}
    /\ Cardinality(illegal) = 1
    /\ t = "Rot90"
    /\ merged = "FlipLR"
    /\ policy_sum > Floor
    /\ \E i \in Points : IsFinite(policy[i])
    /\ \E i \in Points : i \notin occupied /\ i \notin illegal
                         /\ policy[i] = NegInf

\* C10: a merge step under a transform the board is symmetric in completes,
\* leaves no two distinct legal points i, tr(i) both finite and keeps the
\* finite mass of the board points, rotations by 90 and 270 degrees included
\* (stated as claimed, for positive policies and no ko; the code violates it)
C10_MergePairsKeepMass ==
    (/\ merged # "Identity"
     /\ illegal = {}
     /\ \A i \in 0..NP : raw[i] > 0) =>
        /\ fpc # "panic"
        /\ \A i \in Points :
              LET j == Apply(merged, i) IN
              (i # j /\ IsValid(i) /\ IsValid(j)) =>
                  ~(IsFinite(policy[i]) /\ IsFinite(policy[j]))
        /\ FiniteMass(policy, NP - 1) = FiniteMass(before, NP - 1)

\* the images of a point under the eight symmetries of the square
FullOrbit(i) == {Apply(SYMM[k], i) : k \in 1..8}

EmptyBoardDone == fpc = "done" /\ occupied = {} /\ illegal = {}
PositiveRaw == \A i \in 0..NP : raw[i] > 0

\* C11 as claimed: on the empty board, after the seven merges, of every two
\* distinct points that a symmetry maps onto each other exactly one is
\* finite and the other -Inf, and the finite entries sum to 1 (stated for
\* positive policies; the code violates it: two points of one orbit that
\* both gave their mass away are both -Inf)
C11_ExactlyOneOfEachPair ==
    (EmptyBoardDone /\ PositiveRaw) =>
        /\ \A i, j \in Points :
              (i # j /\ \E k \in 2..8 : Apply(SYMM[k], i) = j) =>
                  (IsFinite(policy[i]) # IsFinite(policy[j]))
        /\ policy_sum > 0
        /\ FiniteMass(policy, NP) = policy_sum

\* C11 as amended: on the empty board, after the seven merges, of every two
\* distinct points that a symmetry maps onto each other at most one holds a
\* normal probability; for a positive policy exactly one point of every
\* orbit is finite (the one of least index) and all others are -Inf, no
\* mass is lost, and the finite entries sum to 1 after renormalisation
C11_OnePerOrbit ==
    EmptyBoardDone =>
        /\ \A i, j \in Points :
              (i # j /\ \E k \in 2..8 : Apply(SYMM[k], i) = j) =>
                  ~(IsNormal(policy[i]) /\ IsNormal(policy[j]))
        /\ PositiveRaw =>
              /\ \A i \in Points :
                    /\ Cardinality({j \in FullOrbit(i) : IsFinite(policy[j])}) = 1
                    /\ IsFinite(policy[i]) <=> (\A j \in FullOrbit(i) : i <= j)
              /\ FiniteMass(policy, NP) = FiniteMass(raw, NP)
        /\ policy_sum > Floor
        /\ FiniteMass(policy, NP) = policy_sum

C11_Witness ==
    /\ EmptyBoardDone
    /\ merged = "Rot270"
    /\ t = "Rot90"
    /\ PositiveRaw
    /\ raw[1] # raw[0]
    /\ IsFinite(policy[0])
    /\ policy[Last] = NegInf
    /\ policy[NP - 1] = NegInf
    /\ policy_sum = FiniteMass(raw, NP)

\* the entry v of the policy, as returned, equals 1: it was divided by
\* policy_sum, or left unscaled when no division took place
ReturnedOne(v) == IF policy_sum > 0 THEN v = policy_sum ELSE v = Unit

NoLegalPoint == \A i \in Points : i \in occupied \/ i \in illegal

\* C12 as claimed: when no board point is legal the returned policy has
\* every board entry at -Inf and the pass entry equal to 1, for every pass
\* probability the evaluator returned (the code violates it: a pass
\* probability of at most 1e-4 is left unscaled)
C12_PassGetsAllMass ==
    (fpc = "done" /\ NoLegalPoint) =>
        /\ \A i \in Points : policy[i] = NegInf
        /\ ReturnedOne(policy[NP])

\* C12 as amended: when no board point is legal every board entry is -Inf
\* and the pass entry is 1 if the evaluator's pass probability is above the
\* 1e-4 floor, and is left as the evaluator returned it otherwise; in
\* general the finite entries sum to 1 unless the surviving mass is at most
\* the floor, in which case the policy is left unscaled
C12_PassGetsMassAboveFloor ==
    fpc = "done" =>
        /\ NoLegalPoint =>
              /\ \A i \in Points : policy[i] = NegInf
              /\ raw[NP] > Floor => ReturnedOne(policy[NP])
              /\ raw[NP] <= Floor => policy_sum = 0 /\ policy[NP] = raw[NP]
        /\ FiniteMass(policy, NP) > Floor =>
              policy_sum > 0 /\ FiniteMass(policy, NP) = policy_sum
        /\ FiniteMass(policy, NP) <= Floor => policy_sum = 0

C12_Witness ==
    /\ fpc = "done"
    /\ illegal = Points
    /\ occupied # {}
    /\ raw[NP] = 2
    /\ policy[NP] = 2
    /\ policy_sum = 2
    /\ \A i \in Points : policy[i] = NegInf

\* ----------------------------------------------------------- CircularBuf
InitBuf == PredictOff /\ FwdOff /\ SelfOff /\ BufOff

\* the values a caller pushes: a fresh value or the sentinel itself
PushValues == {Len(pushed), Sentinel}

NoneAlive == \A k \in Iters : ~its[k].alive

\* circular_buf.rs:74-77  push; the &mut borrow excludes live iterators
Push ==
    /\ NoneAlive
    /\ Len(pushed) < MaxPushes
    /\ \E value \in PushValues :
         /\ cb' = [position |-> N_MOD_SIX(cb.position),
                   buf |-> [cb.buf EXCEPT ![cb.position] = value]]
         /\ pushed' = Append(pushed, value)
    /\ UNCHANGED its
    /\ UNCHANGED <<predictVars, fwdVars, selfVars>>

\* mutant: the iterator starts at the write position, not one before it
IterAtPosition(k) ==
    /\ ~its[k].alive
    /\ its' = [its EXCEPT ![k] = [alive |-> TRUE, count |-> 0,
                                  position |-> cb.position,
                                  out |-> <<>>, nones |-> 0]]
    /\ UNCHANGED <<cb, pushed>>
    /\ UNCHANGED <<predictVars, fwdVars, selfVars>>

\* circular_buf.rs:81-87  iter
Iter(k) ==
    /\ ~its[k].alive
    /\ its' = [its EXCEPT ![k] = [alive |-> TRUE, count |-> 0,
                                  position |-> P_MOD_SIX(cb.position),
                                  out |-> <<>>, nones |-> 0]]
    /\ UNCHANGED <<cb, pushed>>
    /\ UNCHANGED <<predictVars, fwdVars, selfVars>>

\* mutant: next takes the value out of the slot it reads
IterNextTaking(k) ==
    /\ its[k].alive
    /\ IF its[k].count = Capacity
       THEN /\ its[k].nones < MaxNones
            /\ its' = [its EXCEPT ![k].nones = @ + 1]
            /\ cb' = cb
       ELSE /\ its' = [its EXCEPT ![k].position = P_MOD_SIX(its[k].position),
                                  ![k].count = @ + 1,
                                  ![k].out = Append(@, cb.buf[its[k].position])]
            /\ cb' = [cb EXCEPT !.buf[its[k].position] = Sentinel]
    /\ UNCHANGED pushed
    /\ UNCHANGED <<predictVars, fwdVars, selfVars>>

\* circular_buf.rs:32-42  CircularIterator::next
IterNext(k) ==
    /\ its[k].alive
    /\ IF its[k].count = Capacity
       THEN /\ its[k].nones < MaxNones
            /\ its' = [its EXCEPT ![k].nones = @ + 1]
       ELSE its' = [its EXCEPT ![k].position = P_MOD_SIX(its[k].position),
                               ![k].count = @ + 1,
                               ![k].out = Append(@, cb.buf[its[k].position])]
    /\ UNCHANGED <<cb, pushed>>
    /\ UNCHANGED <<predictVars, fwdVars, selfVars>>

\* the iterator goes out of scope, fully consumed or not
IterDrop(k) ==
    /\ its[k].alive
    /\ its' = [its EXCEPT ![k] = NoIter]
    /\ UNCHANGED <<cb, pushed>>
    /\ UNCHANGED <<predictVars, fwdVars, selfVars>>

NextBuf ==
    \/ Push
    \/ \E k \in Iters : Iter(k)
    \/ \E k \in Iters : IterNext(k)
    \/ \E k \in Iters : IterDrop(k)

SpecBuf == InitBuf /\ [][NextBuf]_vars

\* ------------------------------------------------- claims on self_play
Resigns(h) == h.value < ResignThreshold

\* C13: a ply whose search returns a value below -0.9 is the last ply: the
\* game is over with result Resign, the winner is the opponent of the colour
\* to move, the margin is the negated value, the board is the board before
\* the ply whatever the pass counter was; a game is never resigned at a ply
\* whose value is not below the threshold
C13_ResignBelowThreshold ==
    /\ \A k \in 1..Len(hist) :
          Resigns(hist[k]) =>
              /\ k = Len(hist)
              /\ spc = "resigned"
              /\ result = [kind |-> "Resign",
                           winner |-> Opposite(hist[k].color),
                           margin |-> 0 - hist[k].value]
              /\ board = hist[k].before
              /\ pass_count = hist[k].passes
              /\ count = k - 1
    /\ (spc = "resigned" \/ result.kind = "Resign") =>
          hist # <<>> /\ Resigns(hist[Len(hist)])

C13_Witness ==
    /\ spc = "resigned"
    /\ Len(hist) = 3
    /\ hist[1].index # NP
    /\ hist[2].index = NP
    /\ hist[3].passes = 1
    /\ hist[3].color = "Black"
    /\ result.winner = "White"
    /\ result.margin = 95
    /\ board # NewBoard

Passes(h) == ~Resigns(h) /\ h.index = NP
Places(h) == ~Resigns(h) /\ h.index # NP

\* the board after ply k
BoardAfter(k) == IF k = Len(hist) THEN board ELSE hist[k + 1].before

\* the pass counter after ply k
PassesAfter(k) == IF k = Len(hist) THEN pass_count ELSE hist[k + 1].passes

\* the game ended inside the loop, not by running into the cap
EndedInLoop == spc = "ended" /\ count < MaxPlies

\* C14: a pass ply adds one to the pass counter and leaves the board as it
\* was, a ply that places a stone resets the counter to 0; the game ends as
\* Ended inside the loop exactly when two consecutive plies, one of each
\* colour, both chose the pass index, and these are then the last two plies;
\* if every ply passes the game is over after exactly 2 plies on the empty
\* board
C14_TwoPassesEnd ==
    /\ \A k \in 1..Len(hist) :
          /\ Passes(hist[k]) =>
                /\ PassesAfter(k) = hist[k].passes + 1
                /\ BoardAfter(k) = hist[k].before
          /\ Places(hist[k]) => PassesAfter(k) = 0
    /\ \A k \in 1..(Len(hist) - 1) :
          (Passes(hist[k]) /\ Passes(hist[k + 1])) =>
              /\ k + 1 = Len(hist)
              /\ hist[k].color # hist[k + 1].color
              /\ EndedInLoop
              /\ result.kind = "Ended"
    /\ EndedInLoop =>
          /\ Len(hist) >= 2
          /\ Passes(hist[Len(hist) - 1])
          /\ Passes(hist[Len(hist)])
    /\ (\A k \in 1..Len(hist) : Passes(hist[k])) =>
          /\ Len(hist) <= 2
          /\ board = NewBoard
          /\ Len(hist) = 2 <=> spc = "ended"

C14_Witness ==
    /\ EndedInLoop
    /\ Len(hist) = 4
    /\ Passes(hist[1])
    /\ Places(hist[2])
    /\ Passes(hist[3])
    /\ Passes(hist[4])
    /\ board # NewBoard

\* C15: every ply, a resignation ply and a pass ply included, has exactly
\* one entry in the game record, holding the colour to move, the coordinates
\* of the move (empty for resign and pass) and the snapshot of the
\* distribution the search returned; a ply that places a stone also has the
\* marker of the move of highest prior; entries once written stay as they
\* are (stated as claimed; the code violates it on a resignation ply)
C15_EveryPlyRecorded ==
    /\ Len(sgf) = Len(hist)
    /\ \A k \in 1..Len(hist) :
          /\ sgf[k].color = hist[k].color
          /\ sgf[k].coords = IF Places(hist[k])
                             THEN <<X(hist[k].index), Y(hist[k].index)>>
                             ELSE <<>>
          /\ sgf[k].policy = hist[k].policy
          /\ Places(hist[k]) => sgf[k].marker # <<>>

ColorOfPly(k) == IF k % 2 = 1 THEN "Black" ELSE "White"

GameOver == spc \in {"resigned", "ended"}

PliesBounded ==
    /\ Len(hist) <= MaxPlies
    /\ count <= MaxPlies
    /\ \A k \in 1..Len(hist) : hist[k].color = ColorOfPly(k)
    /\ spc = "play" => count = Len(hist) /\ current = ColorOfPly(count + 1)
    /\ (spc = "ended" /\ ~EndedInLoop) =>
          /\ result.kind = "Ended"
          /\ Len(hist) = MaxPlies
          /\ Len(sgf) = MaxPlies
          /\ \A k \in 1..Len(hist) : ~Resigns(hist[k])
          /\ \A k \in 1..(Len(hist) - 1) :
                ~(Passes(hist[k]) /\ Passes(hist[k + 1]))
          /\ \A i \in Points :
                board[i] # "Empty" <=>
                    \E k \in 1..Len(hist) : hist[k].index = i

\* C16: self_play plays at most the capped number of plies, Black moves
\* first and the colour alternates after every ply that does not end the
\* game, a game that runs into the cap without resignation or two
\* consecutive passes returns Ended with the record and board built so far,
\* and, every search returning, self_play always terminates
C16_TerminatesWithinCap == []PliesBounded /\ <>GameOver

C16_Witness ==
    /\ spc = "ended"
    /\ count = MaxPlies
    /\ result.kind = "Ended"
    /\ Len(hist) = MaxPlies
    /\ Passes(hist[1])
    /\ Places(hist[2])
    /\ Passes(hist[MaxPlies])
    /\ hist[2].color = "White"

\* ------------------------------------------------ claims on CircularBuf
\* the j-th item an iteration is to yield after the pushes made so far
Expected(j) ==
    IF j <= Len(pushed) THEN pushed[Len(pushed) + 1 - j] ELSE Sentinel

YieldsExpected(k) ==
    /\ Len(its[k].out) = its[k].count
    /\ its[k].count <= Capacity
    /\ its[k].nones > 0 => its[k].count = Capacity
    /\ \A j \in 1..Len(its[k].out) : its[k].out[j] = Expected(j)

\* C17: after 6 or more pushes an iteration yields exactly 6 items, the 6
\* values pushed last, most recent first, and then None; no value pushed
\* before the last 6 is yielded
C17_SixMostRecent ==
    \A k \in Iters :
        (its[k].alive /\ Len(pushed) >= Capacity) =>
            /\ YieldsExpected(k)
            /\ \A j \in 1..Len(its[k].out) :
                  its[k].out[j] = pushed[Len(pushed) + 1 - j]

C17_Witness ==
    /\ Len(pushed) = MaxPushes
    /\ \A n \in 1..MaxPushes : pushed[n] = n - 1
    /\ its[1].alive
    /\ its[1].count = Capacity
    /\ its[1].nones = 1
    /\ its[1].out[1] = MaxPushes - 1
    /\ its[1].out[Capacity] = MaxPushes - Capacity

\* C18: after fewer than 6 pushes (none included) an iteration yields
\* exactly 6 items: the pushed values, most recent first, and then the
\* sentinel 361 for every slot never written
C18_SentinelsAfterPushed ==
    \A k \in Iters :
        (its[k].alive /\ Len(pushed) < Capacity) =>
            /\ YieldsExpected(k)
            /\ \A j \in 1..Len(its[k].out) :
                  /\ j <= Len(pushed) => its[k].out[j] = pushed[Len(pushed) + 1 - j]
                  /\ j > Len(pushed) => its[k].out[j] = Sentinel

C18_Witness ==
    /\ pushed = <<0, 1>>
    /\ its[1].alive
    /\ its[1].nones = 1
    /\ its[1].out = <<1, 0, Sentinel, Sentinel, Sentinel, Sentinel>>
    /\ its[2].alive
    /\ its[2].out = <<1>>

ReadOnlyStep ==
    /\ pushed' = pushed => cb' = cb
    /\ \A k \in Iters :
          (its[k].alive /\ its[k].count = Capacity /\ its'[k].alive) =>
              /\ its'[k].count = Capacity
              /\ its'[k].out = its[k].out
    /\ \A k, l \in Iters :
          (its'[k].alive /\ its'[l].alive) =>
              \A j \in 1..Len(its'[k].out) :
                  j <= Len(its'[l].out) => its'[k].out[j] = its'[l].out[j]

\* C19: creating an iterator and taking items from it leaves the slots and
\* the write position as they are, two iterations with no push between them
\* yield the same items, and an iterator that has yielded its 6 items keeps
\* answering None
C19_IterationReadOnly == [][ReadOnlyStep]_vars

C19_Witness ==
    /\ Len(pushed) = Capacity + 1
    /\ pushed[1] = 0
    /\ pushed[Capacity + 1] = Capacity
    /\ its[1].alive
    /\ its[1].nones = MaxNones
    /\ its[2].alive
    /\ its[2].count = 3
    /\ its[2].out = <<Capacity, Capacity - 1, Capacity - 2>>
    /\ cb.position = 1

\* -------------------------------------- claims on channel failures
Panicked == {w \in Workers : wpc[w] = "panicked"}

\* the dispatcher waits for a request and every worker has stopped or waits
\* for a reply that the dispatcher still owes it
HangsAfterFailure ==
    /\ mpc = "recv"
    /\ chan = <<>>
    /\ \A w \in Running :
          \/ wpc[w] \in {"exited", "panicked"}
          \/ Blocked(w) /\ ~SenderDropped(w)

\* C20: when a reply channel is closed without a reply (the evaluator
\* returned fewer results than the batch held) the worker does no insert
\* for it, predict does not return a result and does not hang (stated as
\* claimed, for searches without an empty probe; the code violates it)
C20_ChannelFailureFails ==
    (Panicked # {} /\ stat.empty = 0) =>
        /\ mpc # "done"
        /\ ~HangsAfterFailure
        /\ stat.inserts + Cardinality(Panicked) + CountW({"wait", "insert"})
               = stat.sent

\* ------------------------------------- claims on the request protocol
\* the requests of worker w the dispatcher has not answered yet: queued, or
\* collected in the batch and not replied to
Unanswered(w) ==
    Cardinality({k \in 1..Len(chan) : chan[k][2] = w})
    + Cardinality({k \in 1..Len(sender_list) :
          sender_list[k] = w /\ (mpc = "reply" => k >= ri)})

RECURSIVE SumUnanswered(_)
SumUnanswered(n) == IF n = 0 THEN 0 ELSE Unanswered(n) + SumUnanswered(n - 1)

OneRequestPerWorker ==
    /\ \A w \in Workers :
          /\ Unanswered(w) <= 1
          /\ Unanswered(w) = 1 => Blocked(w)
          /\ Blocked(w) => Unanswered(w) = 1
    /\ SumUnanswered(MaxThreads) <= cfg.thread_count
    /\ \A k, l \in 1..Len(sender_list) :
          k # l => sender_list[k] # sender_list[l]
    /\ mpc \in {"join", "done"} =>
          chan = <<>> /\ \A w \in Workers : ~Blocked(w)

\* the order of a worker's steps within one iteration
WorkerOrder ==
    {<<"idle", "claim">>, <<"claim", "probe">>, <<"claim", "exited">>,
     <<"probe", "send">>, <<"probe", "claim">>, <<"send", "wait">>,
     <<"wait", "insert">>, <<"insert", "update">>, <<"update", "claim">>}

InOrderStep ==
    \A w \in Workers :
        /\ wpc'[w] # wpc[w] => <<wpc[w], wpc'[w]>> \in WorkerOrder
        /\ (wpc[w] = "probe" /\ wpc'[w] = "claim") => trace'[w] = <<>>
        /\ (wpc[w] = "wait" /\ wpc'[w] = "insert") =>
              got'[w] = EvalOne(wfeat[w])

\* predict is over, or the proviso of the claim is gone: a probe returned
\* an empty trace, or there is no worker at all
Settled ==
    \/ mpc \in {"done", "failed"}
    \/ stat.empty > 0
    \/ cfg.thread_count = 0

\* C21: a worker has at most one unanswered request and is blocked while it
\* has one, so the unanswered requests never outnumber the workers and the
\* requests of a batch come from distinct workers; a worker's steps go
\* claim, probe, send, receive, insert; the dispatcher never leaves its
\* last batch with a request unanswered; and, with a worker and no empty
\* probe, the search runs to its end, where every request sent has been
\* answered
C21_OneRequestAnswered ==
    /\ []OneRequestPerWorker
    /\ [][InOrderStep]_vars
    /\ <>Settled

C21_Witness ==
    /\ cfg = [iteration_limit |-> 2, batch_size |-> 2, thread_count |-> 2]
    /\ mpc = "reply"
    /\ ri = 2
    /\ sender_list = <<2, 1>>
    /\ wpc[2] = "insert"
    /\ Blocked(1)
    /\ Unanswered(1) = 1
    /\ stat.empty = 0

\* ------------------------------------- claims on the merge assertion
\* the legality of the points is invariant under every symmetry of the board
LegalitySymmetric ==
    \A k \in 2..8 :
        IsSymmetric(occupied, SYMM[k]) =>
            \A i \in Points : IsValid(i) <=> IsValid(Apply(SYMM[k], i))

\* C22: the assert! of the merge step never fails: for every board whose
\* legality is invariant under the symmetries of the board and every
\* evaluator policy that is positive on every point, the merge loop runs
\* through all the symmetries of the board (stated as claimed; the code
\* violates it)
C22_MergeAssertHolds ==
    (LegalitySymmetric /\ PositiveRaw) => fpc # "panic"

====
